---------------------------- MODULE Spec2Model ----------------------------
(***************************************************************************)
(* Model of final_project/src/main.rs: the undirected Graph (add_edges,    *)
(* create_undirected), the breadth-first search bfs_shortpath, the         *)
(* whole-graph average_shortpath, the entity sampler sample_reviews and    *)
(* compare_average_shortpaths.                                             *)
(*                                                                         *)
(* A HashMap<String, V> is a function whose DOMAIN is its key set; a       *)
(* HashSet<String> is a set.  The iteration order of both is unspecified,  *)
(* so every loop over one picks its next element with \E.                  *)
(* An f64 quotient n/d of two small usize values is the pair <<n, d>>;     *)
(* <<0, 0>> is NaN.  Comparisons of quotients are made on the exact        *)
(* rationals.                                                              *)
(***************************************************************************)
EXTENDS Integers, Sequences, FiniteSets, TLC

VARIABLES
    pc,             \* position of the running function
    caller,         \* who called average_shortpath: "test", "cmp1" or "cmp2"
    edges,          \* create_undirected: the slice of edges it was given
    idx,            \* create_undirected: index of the next edge of the for loop
    outedges,       \* Graph.outedges of self
    start,          \* bfs_shortpath: its argument
    distances,      \* bfs_shortpath / average_shortpath: the distance map
    queue,          \* bfs_shortpath: the VecDeque
    current,        \* bfs_shortpath: the node popped last
    current_distance, \* bfs_shortpath: distances[&current] read after the pop
    pending,        \* bfs_shortpath: neighbours of current the for loop has yet to visit
    pushes,         \* bfs_shortpath: number of push_back calls per node (history)
    pops,           \* bfs_shortpath: number of successful pop_front calls (history)
    keys_todo,      \* average_shortpath: keys the outer loop has yet to visit
    vals_todo,      \* average_shortpath: entries of distances the inner loop has yet to visit
    total_length,   \* average_shortpath
    total_path,     \* average_shortpath
    avg,            \* average_shortpath: the returned quotient
    graph1,         \* compare_average_shortpaths: first argument
    graph2,         \* compare_average_shortpaths: second argument
    avg_length1,    \* compare_average_shortpaths
    avg_length2,    \* compare_average_shortpaths
    six_degrees_1,  \* compare_average_shortpaths
    six_degrees_2,  \* compare_average_shortpaths
    shorter,        \* compare_average_shortpaths: branch of the last if/else chain
    reviews,        \* sample_reviews: the slice of reviews
    target_size,    \* sample_reviews: _target_size
    sample_id_set,  \* sample_reviews
    samples         \* sample_reviews: the returned vector

createVars == <<edges, idx>>
bfsVars == <<start, queue, current, current_distance, pending, pushes, pops>>
avgVars == <<keys_todo, vals_todo, total_length, total_path, avg>>
cmpVars == <<graph1, graph2, avg_length1, avg_length2, six_degrees_1, six_degrees_2, shorter>>
sampleVars == <<reviews, target_size, sample_id_set, samples>>
vars == <<pc, caller, outedges, distances, createVars, bfsVars, avgVars, cmpVars, sampleVars>>

-----------------------------------------------------------------------------
(* Bounds of the model *)

\* longest edge list given to create_undirected when its loop is stepped
MaxListLen == 3
\* longest edge list the graphs of the search and of the average are built from
MaxEdges == 4
\* longest review list given to sample_reviews
MaxReviews == 3
\* largest _target_size given to sample_reviews
MaxTarget == 3

Nodes == {"A", "B", "C", "D"}
ReviewerIds == {"A1", "A2", "A3"}
\* "A1" is also an asin: nothing keeps the two id classes apart
Asins == {"B1", "B2", "B3", "A1"}

\* the edge lists of length k, and the review lists of length k
EdgeLists(k) == [1..k -> Nodes \X Nodes]
ReviewLists(k) == [1..k -> ReviewerIds \X Asins]

-----------------------------------------------------------------------------
(* Graph *)

EmptyMap == [k \in {} |-> {}]

\* Graph::new
new == EmptyMap

\* self.outedges.entry(k).or_insert_with(HashSet::new).insert(x)
EntryInsert(g, k, x) ==
    [n \in DOMAIN g \cup {k} |->
        IF n = k THEN (IF k \in DOMAIN g THEN g[k] ELSE {}) \cup {x} ELSE g[n]]

\* add_edges without its second statement
add_edges_one_way(g, u, v) == EntryInsert(g, u, v)

\* add_edges replacing the adjacency set of each endpoint instead of inserting into it
add_edges_overwrite(g, u, v) ==
    LET put(h, k, x) == [n \in DOMAIN h \cup {k} |-> IF n = k THEN {x} ELSE h[n]]
    IN  put(put(g, u, v), v, u)

\* Graph::add_edges
add_edges(g, u, v) == EntryInsert(EntryInsert(g, u, v), v, u)

\* Graph::create_undirected as a function of the whole slice
RECURSIVE create_from(_, _, _)
create_from(g, es, i) ==
    IF i > Len(es) THEN g
    ELSE create_from(add_edges(g, es[i][1], es[i][2]), es, i + 1)

create_undirected(es) == create_from(new, es, 1)

-----------------------------------------------------------------------------
(* Idle values of the variables a specification does not use *)

CreateIdle == edges = <<>> /\ idx = 0
BfsIdle ==
    /\ start = "" /\ queue = <<>> /\ current = "" /\ current_distance = 0
    /\ pending = {}
    /\ pushes = [n \in Nodes |-> 0] /\ pops = 0
AvgIdle ==
    /\ keys_todo = {} /\ vals_todo = {} /\ total_length = 0 /\ total_path = 0
    /\ avg = <<0, 0>>
CmpIdle ==
    /\ graph1 = EmptyMap /\ graph2 = EmptyMap
    /\ avg_length1 = <<0, 0>> /\ avg_length2 = <<0, 0>>
    /\ six_degrees_1 = FALSE /\ six_degrees_2 = FALSE /\ shorter = "none"
SampleIdle ==
    /\ reviews = <<>> /\ target_size = 0 /\ sample_id_set = {} /\ samples = <<>>

-----------------------------------------------------------------------------
(* create_undirected, one iteration of its for loop per step *)

InitCreate ==
    /\ pc = "create_loop"
    /\ caller = "test"
    /\ \E k \in 0..MaxListLen : edges \in EdgeLists(k)
    /\ idx = 1
    /\ outedges = new
    /\ distances = EmptyMap
    /\ BfsIdle /\ AvgIdle /\ CmpIdle /\ SampleIdle

\* for &(ref u, ref v) in edges { g.add_edges(u.clone(), v.clone()); }
CreateStep ==
    /\ pc = "create_loop"
    /\ idx <= Len(edges)
    /\ outedges' = add_edges(outedges, edges[idx][1], edges[idx][2])
    /\ idx' = idx + 1
    /\ UNCHANGED <<pc, caller, edges, distances, bfsVars, avgVars, cmpVars, sampleVars>>

\* the loop is exhausted and g is returned
CreateReturn ==
    /\ pc = "create_loop"
    /\ idx > Len(edges)
    /\ pc' = "create_done"
    /\ UNCHANGED <<caller, outedges, distances, createVars, bfsVars, avgVars, cmpVars, sampleVars>>

NextCreate == CreateStep \/ CreateReturn

SpecCreate == InitCreate /\ [][NextCreate]_vars

-----------------------------------------------------------------------------
(* bfs_shortpath *)

\* HashMap::insert(k, v)
MapInsert(m, k, v) == [n \in DOMAIN m \cup {k} |-> IF n = k THEN v ELSE m[n]]

\* self.outedges.get(&current).unwrap_or(&HashSet::new())
Neighbors(g, cur) == IF cur \in DOMAIN g THEN g[cur] ELSE {}

\* the test of line 66 when the start node was never marked as visited
UnvisitedOrStart(dist, n) == n \notin DOMAIN dist \/ dist[n] = 0

\* !distances.contains_key(neighbor)
Unvisited(dist, n) == n \notin DOMAIN dist

\* the distance given to a node found from a node at distance d, off by one
NextDistanceSame(d) == d

\* current_distance + 1
NextDistance(d) == d + 1

InitBfs ==
    /\ pc = "bfs_call"
    /\ caller = "test"
    /\ \E k \in 0..MaxEdges : \E es \in EdgeLists(k) : outedges = create_undirected(es)
    /\ start = ""
    /\ distances = EmptyMap
    /\ queue = <<>> /\ current = "" /\ current_distance = 0 /\ pending = {}
    /\ pushes = [n \in Nodes |-> 0] /\ pops = 0
    /\ CreateIdle /\ AvgIdle /\ CmpIdle /\ SampleIdle

\* distances.insert(start, 0); queue.push_back(start)
BfsStart ==
    /\ pc = "bfs_call"
    /\ \E s \in Nodes :
        /\ start' = s
        /\ distances' = MapInsert(EmptyMap, s, 0)
        /\ queue' = <<s>>
        /\ pushes' = [pushes EXCEPT ![s] = @ + 1]
    /\ pc' = "bfs_pop"
    /\ UNCHANGED <<caller, outedges, current, current_distance, pending, pops,
                   createVars, avgVars, cmpVars, sampleVars>>

\* while let Some(current) = queue.pop_front() { let current_distance = distances[&current];
\* indexing a HashMap with a missing key panics
BfsPop ==
    /\ pc = "bfs_pop"
    /\ queue # <<>>
    /\ current' = Head(queue)
    /\ queue' = Tail(queue)
    /\ pops' = pops + 1
    /\ IF Head(queue) \in DOMAIN distances
       THEN /\ current_distance' = distances[Head(queue)]
            /\ pending' = Neighbors(outedges, Head(queue))
            /\ pc' = "bfs_for"
       ELSE /\ pc' = "panic"
            /\ UNCHANGED <<current_distance, pending>>
    /\ UNCHANGED <<caller, outedges, start, distances, pushes,
                   createVars, avgVars, cmpVars, sampleVars>>

\* one iteration of: for neighbor in ... { if !distances.contains_key(neighbor) { ... } }
BfsVisit ==
    /\ pc = "bfs_for"
    /\ \E neighbor \in pending :
        /\ pending' = pending \ {neighbor}
        /\ IF Unvisited(distances, neighbor)
           THEN /\ distances' = MapInsert(distances, neighbor, NextDistance(current_distance))
                /\ queue' = Append(queue, neighbor)
                /\ pushes' = [pushes EXCEPT ![neighbor] = @ + 1]
           ELSE UNCHANGED <<distances, queue, pushes>>
    /\ UNCHANGED <<pc, caller, outedges, start, current, current_distance, pops,
                   createVars, avgVars, cmpVars, sampleVars>>

\* the for loop is exhausted: back to the head of the while loop
BfsForEnd ==
    /\ pc = "bfs_for"
    /\ pending = {}
    /\ pc' = "bfs_pop"
    /\ UNCHANGED <<caller, outedges, distances, bfsVars, createVars, avgVars, cmpVars,
                   sampleVars>>

\* pop_front returns None: the loop ends and distances is returned
BfsReturn ==
    /\ pc = "bfs_pop"
    /\ queue = <<>>
    /\ pc' = "bfs_done"
    /\ UNCHANGED <<caller, outedges, distances, bfsVars, createVars, avgVars, cmpVars,
                   sampleVars>>

NextBfs == BfsStart \/ BfsPop \/ BfsVisit \/ BfsForEnd \/ BfsReturn

SpecBfs == InitBfs /\ [][NextBfs]_vars

\* the program is sequential: a step that can be taken is taken
FairSpecBfs == SpecBfs /\ WF_vars(NextBfs)

\* bfs_shortpath as a function of the graph and the start, for its callers.
\* The for loop visits the neighbours in one fixed order here; SpecBfs visits
\* them in every order.
RECURSIVE SetToSeq(_)
SetToSeq(S) ==
    IF S = {} THEN <<>>
    ELSE LET x == CHOOSE y \in S : TRUE IN <<x>> \o SetToSeq(S \ {x})

RECURSIVE BfsFor(_, _, _, _)
BfsFor(dist, q, cd, nbrs) ==
    IF nbrs = <<>> THEN <<dist, q>>
    ELSE IF Unvisited(dist, Head(nbrs))
         THEN BfsFor(MapInsert(dist, Head(nbrs), NextDistance(cd)),
                     Append(q, Head(nbrs)), cd, Tail(nbrs))
         ELSE BfsFor(dist, q, cd, Tail(nbrs))

RECURSIVE BfsWhile(_, _, _)
BfsWhile(g, dist, q) ==
    IF q = <<>> THEN dist
    ELSE LET r == BfsFor(dist, Tail(q), dist[Head(q)], SetToSeq(Neighbors(g, Head(q))))
         IN  BfsWhile(g, r[1], r[2])

bfs_shortpath(g, s) == BfsWhile(g, MapInsert(EmptyMap, s, 0), <<s>>)

\* the stepped search returns the map of bfs_shortpath, whatever the order in which the
\* for loop visits the neighbours
BfsOrderIndependent == pc = "bfs_done" => distances = bfs_shortpath(outedges, start)

-----------------------------------------------------------------------------
(* average_shortpath *)

\* the test of line 82 letting the distance 0 of a node to itself through
Counted0(distance) == distance >= 0

\* if distance > 0
Counted(distance) == distance > 0

\* total_length as f64 / total_path as f64
Quotient(n, d) == <<n, d>>

IsNaN(x) == x[1] = 0 /\ x[2] = 0

InitAvg ==
    /\ pc = "avg_call"
    /\ caller = "test"
    /\ \E k \in 0..MaxEdges : \E es \in EdgeLists(k) : outedges = create_undirected(es)
    /\ distances = EmptyMap
    /\ CreateIdle /\ BfsIdle /\ AvgIdle /\ CmpIdle /\ SampleIdle

\* let mut total_length = 0; let mut total_path = 0; for node in self.outedges.keys()
AvgStart ==
    /\ pc = "avg_call"
    /\ total_length' = 0
    /\ total_path' = 0
    /\ keys_todo' = DOMAIN outedges
    /\ vals_todo' = {}
    /\ pc' = "avg_keys"
    /\ UNCHANGED <<caller, outedges, distances, avg, createVars, bfsVars, cmpVars, sampleVars>>

\* the next node of the outer loop: let distances = self.bfs_shortpath(node)
AvgBfs ==
    /\ pc = "avg_keys"
    /\ \E node \in keys_todo :
        /\ keys_todo' = keys_todo \ {node}
        /\ distances' = bfs_shortpath(outedges, node)
        /\ vals_todo' = DOMAIN bfs_shortpath(outedges, node)
    /\ pc' = "avg_vals"
    /\ UNCHANGED <<caller, outedges, total_length, total_path, avg,
                   createVars, bfsVars, cmpVars, sampleVars>>

\* one iteration of: for &distance in distances.values() { if distance > 0 { ... } }
AvgValue ==
    /\ pc = "avg_vals"
    /\ \E k \in vals_todo :
        /\ vals_todo' = vals_todo \ {k}
        /\ IF Counted(distances[k])
           THEN /\ total_length' = total_length + distances[k]
                /\ total_path' = total_path + 1
           ELSE UNCHANGED <<total_length, total_path>>
    /\ UNCHANGED <<pc, caller, outedges, distances, keys_todo, avg,
                   createVars, bfsVars, cmpVars, sampleVars>>

\* the inner loop is exhausted: back to the head of the outer loop
AvgValuesEnd ==
    /\ pc = "avg_vals"
    /\ vals_todo = {}
    /\ pc' = "avg_keys"
    /\ UNCHANGED <<caller, outedges, distances, avgVars, createVars, bfsVars, cmpVars,
                   sampleVars>>

\* the outer loop is exhausted: total_length as f64 / total_path as f64
AvgReturn ==
    /\ pc = "avg_keys"
    /\ keys_todo = {}
    /\ avg' = Quotient(total_length, total_path)
    /\ pc' = "avg_done"
    /\ UNCHANGED <<caller, outedges, distances, keys_todo, vals_todo, total_length,
                   total_path, createVars, bfsVars, cmpVars, sampleVars>>

NextAvg == AvgStart \/ AvgBfs \/ AvgValue \/ AvgValuesEnd \/ AvgReturn

SpecAvg == InitAvg /\ [][NextAvg]_vars

-----------------------------------------------------------------------------
(* compare_average_shortpaths *)

\* the threshold of the comparisons avg_length <= 6.0
SixDegrees == 6

\* x <= c for an f64 quotient x and a whole number c; false for NaN
F64Le(x, c) == ~IsNaN(x) /\ x[1] <= c * x[2]

\* x < y for f64 quotients; false when either is NaN
F64Lt(x, y) == ~IsNaN(x) /\ ~IsNaN(y) /\ x[1] * y[2] < y[1] * x[2]

\* the if/else chain of lines 153-159 with its first two tests exchanged
ShorterBranchSwapped(a1, a2) ==
    IF F64Lt(a2, a1) THEN "graph1" ELSE IF F64Lt(a1, a2) THEN "graph2" ELSE "same"

\* if avg_length1 < avg_length2 {..} else if avg_length1 > avg_length2 {..} else {..}
ShorterBranch(a1, a2) ==
    IF F64Lt(a1, a2) THEN "graph1" ELSE IF F64Lt(a2, a1) THEN "graph2" ELSE "same"

PathABC == << <<"A", "B">>, <<"B", "C">> >>
PathABCD == << <<"A", "B">>, <<"B", "C">>, <<"C", "D">> >>
PathABDE == << <<"A", "B">>, <<"B", "D">>, <<"D", "E">> >>

\* the edge lists the two graphs of the comparison are built from
CompareLists ==
    { <<>>, << <<"A", "A">> >>, << <<"A", "B">> >>, PathABC, PathABCD, PathABDE,
      << <<"A", "B">>, <<"B", "C">>, <<"C", "A">> >> }

InitCompare ==
    /\ pc = "cmp_call"
    /\ caller = "test"
    /\ \E es \in CompareLists : graph1 = create_undirected(es)
    /\ \E es \in CompareLists : graph2 = create_undirected(es)
    /\ outedges = EmptyMap
    /\ distances = EmptyMap
    /\ avg_length1 = <<0, 0>> /\ avg_length2 = <<0, 0>>
    /\ six_degrees_1 = FALSE /\ six_degrees_2 = FALSE /\ shorter = "none"
    /\ CreateIdle /\ BfsIdle /\ AvgIdle /\ SampleIdle

\* let avg_length1 = graph1.average_shortpath(): the call
CompareCall1 ==
    /\ pc = "cmp_call"
    /\ outedges' = graph1
    /\ caller' = "cmp1"
    /\ pc' = "avg_call"
    /\ UNCHANGED <<distances, createVars, bfsVars, avgVars, cmpVars, sampleVars>>

\* graph1.average_shortpath() returns; let avg_length2 = graph2.average_shortpath(): the call
CompareCall2 ==
    /\ pc = "avg_done"
    /\ caller = "cmp1"
    /\ avg_length1' = avg
    /\ outedges' = graph2
    /\ caller' = "cmp2"
    /\ pc' = "avg_call"
    /\ UNCHANGED <<distances, graph1, graph2, avg_length2, six_degrees_1, six_degrees_2,
                   shorter, createVars, bfsVars, avgVars, sampleVars>>

\* graph2.average_shortpath() returns; let six_degrees_1 = avg_length1 <= 6.0
CompareSix1 ==
    /\ pc = "avg_done"
    /\ caller = "cmp2"
    /\ avg_length2' = avg
    /\ six_degrees_1' = F64Le(avg_length1, SixDegrees)
    /\ pc' = "cmp_six2"
    /\ UNCHANGED <<caller, outedges, distances, graph1, graph2, avg_length1, six_degrees_2,
                   shorter, createVars, bfsVars, avgVars, sampleVars>>

\* let six_degrees_2 = avg_length2 <= 6.0
CompareSix2 ==
    /\ pc = "cmp_six2"
    /\ six_degrees_2' = F64Le(avg_length2, SixDegrees)
    /\ pc' = "cmp_branch"
    /\ UNCHANGED <<caller, outedges, distances, graph1, graph2, avg_length1, avg_length2,
                   six_degrees_1, shorter, createVars, bfsVars, avgVars, sampleVars>>

\* the last if/else chain
CompareBranch ==
    /\ pc = "cmp_branch"
    /\ shorter' = ShorterBranch(avg_length1, avg_length2)
    /\ pc' = "cmp_done"
    /\ UNCHANGED <<caller, outedges, distances, graph1, graph2, avg_length1, avg_length2,
                   six_degrees_1, six_degrees_2, createVars, bfsVars, avgVars, sampleVars>>

NextCompare ==
    \/ CompareCall1 \/ CompareCall2 \/ CompareSix1 \/ CompareSix2 \/ CompareBranch
    \/ AvgStart \/ AvgBfs \/ AvgValue \/ AvgValuesEnd \/ AvgReturn

SpecCompare == InitCompare /\ [][NextCompare]_vars

-----------------------------------------------------------------------------
(* sample_reviews *)

\* reviews.iter().flat_map(|r| vec![r.reviewer_id, r.asin]).collect::<HashSet<_>>()
UniqueIds(rs) == {rs[i][1] : i \in 1..Len(rs)} \cup {rs[i][2] : i \in 1..Len(rs)}

\* the number of elements choose_multiple(&mut rng, amount) draws from a slice of len
SampleAmount(len, amount) == IF amount < len THEN amount ELSE len

\* the filter of line 124 asking for both endpoints
KeepsBoth(ids, r) == r[1] \in ids /\ r[2] \in ids

\* the filter of line 124 looking at the reviewer only
KeepsReviewer(ids, r) == r[1] \in ids

\* sample_id_set.contains(&r.reviewer_id) || sample_id_set.contains(&r.asin)
Keeps(ids, r) == r[1] \in ids \/ r[2] \in ids

\* reviews.iter().filter(..).map(|r| (r.reviewer_id.clone(), r.asin.clone())).collect()
FilterReviews(rs, ids) == SelectSeq(rs, LAMBDA r : Keeps(ids, r))

InitSample ==
    /\ pc = "sample_call"
    /\ caller = "test"
    /\ \E k \in 0..MaxReviews : reviews \in ReviewLists(k)
    /\ target_size \in 0..MaxTarget
    /\ sample_id_set = {}
    /\ samples = <<>>
    /\ outedges = EmptyMap
    /\ distances = EmptyMap
    /\ CreateIdle /\ BfsIdle /\ AvgIdle /\ CmpIdle

\* lines 114-121: the random draw of sample_ids, collected into sample_id_set
SampleChoose ==
    /\ pc = "sample_call"
    /\ \E ids \in SUBSET UniqueIds(reviews) :
        /\ Cardinality(ids) = SampleAmount(Cardinality(UniqueIds(reviews)), target_size)
        /\ sample_id_set' = ids
    /\ pc' = "sample_filter"
    /\ UNCHANGED <<caller, outedges, distances, reviews, target_size, samples,
                   createVars, bfsVars, avgVars, cmpVars>>

\* lines 122-126: the filter over reviews, returned
SampleFilter ==
    /\ pc = "sample_filter"
    /\ samples' = FilterReviews(reviews, sample_id_set)
    /\ pc' = "sample_done"
    /\ UNCHANGED <<caller, outedges, distances, reviews, target_size, sample_id_set,
                   createVars, bfsVars, avgVars, cmpVars>>

NextSample == SampleChoose \/ SampleFilter

SpecSample == InitSample /\ [][NextSample]_vars

-----------------------------------------------------------------------------
(* Reference definitions on graphs, independent of the search *)

\* the nodes at most k edges away from a
RECURSIVE Within(_, _, _)
Within(g, a, k) ==
    IF k = 0 THEN {a}
    ELSE LET W == Within(g, a, k - 1)
         IN  W \cup UNION {g[n] : n \in W \cap DOMAIN g}

Reachable(g, a) == Within(g, a, Cardinality(DOMAIN g))

\* the length in edges of a shortest path from a to b, for b reachable from a
ShortestLen(g, a, b) ==
    CHOOSE k \in 0..Cardinality(DOMAIN g) :
        b \in Within(g, a, k) /\ (k = 0 \/ b \notin Within(g, a, k - 1))

\* ordered pairs <<a, b>>, a a node of the graph, b # a reachable from a
OrderedPairs(g) == UNION {{<<a, b>> : b \in Reachable(g, a) \ {a}} : a \in DOMAIN g}

UnorderedPairs(g) == {{p[1], p[2]} : p \in OrderedPairs(g)}

RECURSIVE SumOrdered(_, _)
SumOrdered(g, P) ==
    IF P = {} THEN 0
    ELSE LET p == CHOOSE q \in P : TRUE
         IN  ShortestLen(g, p[1], p[2]) + SumOrdered(g, P \ {p})

RECURSIVE SumUnordered(_, _)
SumUnordered(g, U) ==
    IF U = {} THEN 0
    ELSE LET s == CHOOSE t \in U : TRUE
             a == CHOOSE x \in s : TRUE
             b == CHOOSE y \in s : y # a
         IN  ShortestLen(g, a, b) + SumUnordered(g, U \ {s})

\* the adjacency map of a set of unordered pairs ({u} stands for the self-loop at u)
AdjOf(P) == [n \in UNION P |-> {m \in UNION P : {n, m} \in P}]

\* the unordered pairs of the first k edges of a list
PairSet(es, k) == {{es[i][1], es[i][2]} : i \in 1..k}

Permuted(es, p) == [i \in 1..Len(es) |-> es[p[i]]]

-----------------------------------------------------------------------------
(* Claims *)

\* C1: bfs_shortpath returns, without a panic, a map whose keys are exactly the nodes
\* reachable from start, start mapped to 0 and every key mapped to the length of a
\* shortest path from start; for the path A-B-C-D from A it is {A:0, B:1, C:2, D:3}.
C1_BfsDistances ==
    /\ pc # "panic"
    /\ pc = "bfs_done" =>
        /\ DOMAIN distances = Reachable(outedges, start)
        /\ distances[start] = 0
        /\ \A n \in DOMAIN distances : distances[n] = ShortestLen(outedges, start, n)
        /\ (outedges = create_undirected(PathABCD) /\ start = "A") =>
               distances = ("A" :> 0) @@ ("B" :> 1) @@ ("C" :> 2) @@ ("D" :> 3)

C1_Witness ==
    /\ pc = "bfs_done"
    /\ outedges = create_undirected(PathABCD)
    /\ start = "A"
    /\ distances["D"] = 3

C4_Symmetric ==
    /\ \A u \in Nodes, v \in Nodes :
          (u \in DOMAIN outedges /\ v \in outedges[u])
              <=> (v \in DOMAIN outedges /\ u \in outedges[v])
    /\ \A j \in 1..(idx - 1) :
          /\ edges[j][1] \in DOMAIN outedges
          /\ edges[j][2] \in DOMAIN outedges
          /\ edges[j][2] \in outedges[edges[j][1]]
          /\ edges[j][1] \in outedges[edges[j][2]]

C4_Witness ==
    /\ pc = "create_done"
    /\ Len(edges) = 3
    /\ edges[1][1] = edges[1][2]
    /\ edges[2][1] # edges[2][2]
    /\ edges[3] = <<edges[2][2], edges[1][1]>>
    /\ edges[2][1] \in outedges[edges[2][2]]

\* C5: the adjacency map built by create_undirected is the adjacency map of the set of
\* unordered pairs of its input: an edge added before, in either orientation, leaves the
\* map as it was, and every permutation of the input gives the same map.
C5_SetSemantics ==
    /\ outedges = AdjOf(PairSet(edges, idx - 1))
    /\ \A k \in 1..(idx - 1) :
          (\E j \in 1..(k - 1) : {edges[j][1], edges[j][2]} = {edges[k][1], edges[k][2]})
              => create_undirected(SubSeq(edges, 1, k)) = create_undirected(SubSeq(edges, 1, k - 1))
    /\ pc = "create_done" =>
          \A p \in Permutations(1..Len(edges)) :
              create_undirected(Permuted(edges, p)) = outedges

C5_Witness ==
    /\ pc = "create_done"
    /\ edges = << <<"A", "B">>, <<"A", "C">>, <<"B", "A">> >>
    /\ outedges = ("A" :> {"B", "C"}) @@ ("B" :> {"A"}) @@ ("C" :> {"A"})

\* the indices of the reviews with an endpoint in the drawn set
KeptIndices == {i \in 1..Len(reviews) : reviews[i][1] \in sample_id_set \/ reviews[i][2] \in sample_id_set}

\* the j-th smallest element of a set of numbers
Nth(S, j) == CHOOSE i \in S : Cardinality({k \in S : k <= i}) = j

DisjointRecords(rs) ==
    \A i \in 1..Len(rs), j \in 1..Len(rs) :
        i # j => {rs[i][1], rs[i][2]} \cap {rs[j][1], rs[j][2]} = {}

CompareTestDone ==
    /\ pc = "cmp_done"
    /\ graph1 = create_undirected(PathABC)
    /\ graph2 = create_undirected(PathABDE)

\* C8 as stated: graph1 (path A-B-C) has the average 1.0, which is smaller than that of
\* graph2 (path A-B-D-E); the "Graph 1 has a shorter average" branch is taken and the
\* threshold holds for both.
C8_Original ==
    CompareTestDone =>
        /\ avg_length1[1] = avg_length1[2]
        /\ F64Lt(avg_length1, avg_length2)
        /\ shorter = "graph1"
        /\ six_degrees_1 /\ six_degrees_2

\* C8 amended: graph1 (path A-B-C) has the average 8/6 = 4/3, graph2 (path A-B-D-E) has
\* 20/12 = 5/3; graph1's is strictly smaller, the "Graph 1 has a shorter average" branch
\* is taken and the threshold holds for both.
C8_Compare ==
    CompareTestDone =>
        /\ avg_length1 = <<8, 6>>
        /\ avg_length2 = <<20, 12>>
        /\ F64Lt(avg_length1, avg_length2)
        /\ shorter = "graph1"
        /\ six_degrees_1 /\ six_degrees_2

C8_Witness ==
    /\ CompareTestDone
    /\ shorter = "graph1"
    /\ 3 * avg_length1[1] = 4 * avg_length1[2]

\* C9: the loop of bfs_shortpath terminates; no node is pushed onto the queue more than
\* once, a push happens only in the step that first inserts the node into the distance
\* map, and the number of pops never exceeds the number of nodes reachable from start.
C9_Termination ==
    /\ <>(pc = "bfs_done")
    /\ [](\A n \in Nodes : pushes[n] <= 1)
    /\ [](pc # "bfs_call" => pops <= Cardinality(Reachable(outedges, start)))
    /\ [][\A n \in Nodes :
            pushes'[n] # pushes[n] =>
                /\ pushes'[n] = pushes[n] + 1
                /\ n \notin DOMAIN distances
                /\ n \in DOMAIN distances']_vars

C9_Witness ==
    /\ pc = "bfs_done"
    /\ start \in DOMAIN outedges
    /\ start \in outedges[start]
    /\ Cardinality(outedges[start]) = 3
    /\ pushes[start] = 1
    /\ pops = 3

\* a graph without an edge between two distinct nodes
NoProperEdge(g) == \A u \in DOMAIN g : g[u] \subseteq {u}

\* C10: average_shortpath ends with total_path = 0, and returns the quotient 0/0,
\* exactly when no connected component has two or more nodes (no edge, or self-loops
\* only); with an edge between two distinct nodes total_path > 0 and the quotient is a
\* number.
C10_Degenerate ==
    pc = "avg_done" =>
        /\ total_path = 0 <=> NoProperEdge(outedges)
        /\ total_path = 0 <=> \A a \in DOMAIN outedges : Reachable(outedges, a) = {a}
        /\ total_path = 0 => IsNaN(avg)
        /\ total_path > 0 => (~IsNaN(avg) /\ avg[2] > 0 /\ avg[1] >= avg[2])

C10_Witness ==
    /\ pc = "avg_done"
    /\ outedges = ("A" :> {"A"}) @@ ("C" :> {"C"})
    /\ total_path = 0
    /\ IsNaN(avg)

=============================================================================
